---- MODULE Spec2Model ----
(***************************************************************************)
(* The effect-tree interpreter of mtg-eff-sandbox (src/src/interpreter.rs, *)
(* src/src/effect_value.rs) together with the example game and its        *)
(* replacement-effect dispatch (src/src/lib.rs).                           *)
(*                                                                         *)
(* Interpreter::apply is recursive: it runs the closure f in the middle of *)
(* its own body.  The model keeps the Rust call stack explicitly: one      *)
(* frame per live Interpreter value, the frame on top being the one whose  *)
(* closure is executing.  The first half of apply (lines 35-58) is the     *)
(* pair of actions ApplyReplay / ApplyFresh, the second half (lines 60-67) *)
(* is ApplyReturn.  A behaviour is a first run on an interpreter built     *)
(* with empty effects, followed by a second run on an interpreter built    *)
(* from effects the first run recorded (lib.rs 321-330).                   *)
(***************************************************************************)
EXTENDS Integers, Sequences, FiniteSets, TLC

VARIABLES
  heap,                   \* the Game objects alive: heap[r] is the Game behind reference r
  stack,                  \* the live Interpreter values, outermost first
  status,                 \* "running", "done", or the panic that aborted the run
  run,                    \* 1: the run on empty effects, 2: the run on recorded effects
  script,                 \* the closures the first run applied at top level, in call order
  snap,                   \* snap[k+1]: the record and the game after k top-level calls of run 1
  seed,                   \* how the interpreter of run 2 was constructed
  DRAW_CARD_CALL_COUNT,   \* lib.rs 66
  GAIN_LIFE_CALL_COUNT,   \* lib.rs 46
  fresh_calls,            \* per function name, how many apply calls took the fresh branch
  returned                \* what the last apply call that returned handed to its caller

vars == <<heap, stack, status, run, script, snap, seed,
          DRAW_CARD_CALL_COUNT, GAIN_LIFE_CALL_COUNT, fresh_calls, returned>>

(***************************************************************************)
(* Bounds of the model.                                                    *)
(***************************************************************************)
\* top-level apply calls of a run
MaxCalls == 3
\* the count given to a top-level draw_cards
MaxCount == 2
\* cards in the initial library
MaxLibrary == 2

Last(s) == s[Len(s)]
Front(s) == SubSeq(s, 1, Len(s) - 1)

(***************************************************************************)
(* serde_json::Value, as far as the program's types produce it.            *)
(***************************************************************************)
JNull == [t |-> "null"]
JNum(n) == [t |-> "num", v |-> n]
JStr(s) == [t |-> "str", v |-> s]
JArr(xs) == [t |-> "arr", v |-> xs]
\* an object with a single key
JObj(key, j) == [t |-> "obj", k |-> key, v |-> j]

(***************************************************************************)
(* The Rust values the closures return, each carrying its static type.     *)
(***************************************************************************)
TI32 == "i32"
TUnit == "()"
TString == "String"
TResStr == "Result<String, String>"
TResVec == "Result<Vec<String>, String>"
\* apply takes any T: Serialize (interpreter.rs 29-33): a map whose key is not a string
\* is such a T, and serde_json has no JSON for it
TMapUnit == "HashMap<(), ()>"
Types == {TI32, TUnit, TString, TResStr, TResVec, TMapUnit}

I32(n) == [ty |-> TI32, v |-> n]
Unit == [ty |-> TUnit]
Str(s) == [ty |-> TString, v |-> s]
Ok(ty, x) == [ty |-> ty, ok |-> TRUE, v |-> x]
Err(ty, msg) == [ty |-> ty, ok |-> FALSE, v |-> msg]
MapUnit == [ty |-> TMapUnit]
IsResult(val) == val.ty \in {TResStr, TResVec}
IsErr(val) == IsResult(val) /\ ~val.ok

StrsToJson(xs) == [i \in 1..Len(xs) |-> JStr(xs[i])]
JsonToStrs(js) == [i \in 1..Len(js) |-> js[i].v]
AllStrs(js) == \A i \in 1..Len(js) : js[i].t = "str"

\* serde_json::to_value(value) is Ok: none of the types lib.rs records can fail to
\* serialize; a map with a non-string key does ("key must be a string")
Serializes(val) == val.ty # TMapUnit

\* serde_json::to_value(value), where it is Ok
ToValue(val) ==
  CASE val.ty = TI32 -> JNum(val.v)
    [] val.ty = TUnit -> JNull
    [] val.ty = TString -> JStr(val.v)
    [] val.ty = TResStr -> IF val.ok THEN JObj("Ok", JStr(val.v)) ELSE JObj("Err", JStr(val.v))
    [] val.ty = TResVec -> IF val.ok THEN JObj("Ok", JArr(StrsToJson(val.v)))
                                     ELSE JObj("Err", JStr(val.v))

NoValue == [ok |-> FALSE, val |-> Unit]
Decoded(val) == [ok |-> TRUE, val |-> val]

\* The mutated decoder accepts an Ok payload of any shape.
FromValueUnchecked(ty, j) ==
  CASE ty = TI32 -> IF j.t = "num" THEN Decoded(I32(j.v)) ELSE NoValue
    [] ty = TUnit -> IF j.t = "null" THEN Decoded(Unit) ELSE NoValue
    [] ty = TString -> IF j.t = "str" THEN Decoded(Str(j.v)) ELSE NoValue
    [] ty \in {TResStr, TResVec} ->
         IF j.t = "obj" /\ j.k \in {"Ok", "Err"}
           THEN Decoded([ty |-> ty, ok |-> j.k = "Ok", v |-> j.v]) ELSE NoValue
    [] ty = TMapUnit -> NoValue

\* The mutated decoder knows no Err variant.
FromValueOkOnly(ty, j) ==
  CASE ty = TI32 -> IF j.t = "num" THEN Decoded(I32(j.v)) ELSE NoValue
    [] ty = TUnit -> IF j.t = "null" THEN Decoded(Unit) ELSE NoValue
    [] ty = TString -> IF j.t = "str" THEN Decoded(Str(j.v)) ELSE NoValue
    [] ty = TResStr ->
         IF j.t = "obj" /\ j.k = "Ok" /\ j.v.t = "str" THEN Decoded(Ok(TResStr, j.v.v))
         ELSE NoValue
    [] ty = TResVec ->
         IF j.t = "obj" /\ j.k = "Ok" /\ j.v.t = "arr" /\ AllStrs(j.v.v)
           THEN Decoded(Ok(TResVec, JsonToStrs(j.v.v)))
         ELSE NoValue
    [] ty = TMapUnit -> NoValue

\* serde_json::from_value::<T>(json): succeeds exactly when the JSON has the shape T
\* deserializes from.  The JSON carries no type name.
FromValue(ty, j) ==
  CASE ty = TI32 -> IF j.t = "num" THEN Decoded(I32(j.v)) ELSE NoValue
    [] ty = TUnit -> IF j.t = "null" THEN Decoded(Unit) ELSE NoValue
    [] ty = TString -> IF j.t = "str" THEN Decoded(Str(j.v)) ELSE NoValue
    [] ty = TResStr ->
         IF j.t = "obj" /\ j.k = "Ok" /\ j.v.t = "str" THEN Decoded(Ok(TResStr, j.v.v))
         ELSE IF j.t = "obj" /\ j.k = "Err" /\ j.v.t = "str" THEN Decoded(Err(TResStr, j.v.v))
         ELSE NoValue
    [] ty = TResVec ->
         IF j.t = "obj" /\ j.k = "Ok" /\ j.v.t = "arr" /\ AllStrs(j.v.v)
           THEN Decoded(Ok(TResVec, JsonToStrs(j.v.v)))
         ELSE IF j.t = "obj" /\ j.k = "Err" /\ j.v.t = "str" THEN Decoded(Err(TResVec, j.v.v))
         ELSE NoValue
    \* the key of a JSON object is a string, never ()
    [] ty = TMapUnit -> NoValue

\* EffectValue::new: a serde_json::Result<EffectValue>
EffectValueNew(val) ==
  IF Serializes(val) THEN [ok |-> TRUE, ev |-> [serialized |-> ToValue(val)]]
                     ELSE [ok |-> FALSE, ev |-> [serialized |-> JNull]]
\* EffectValue::get::<T>
EffectValueGet(ty, ev) == FromValue(ty, ev.serialized)

\* EffectTree
EffectTree(result, children) == [result |-> result, children |-> children]

(***************************************************************************)
(* lib.rs: the Game and the domain effects.                                *)
(***************************************************************************)
\* Game (lib.rs 12-19); replacement_effects is a map, here a function whose domain is
\* the set of keys present
Game(life, library, hand, graveyard, replacement_effects) ==
  [life |-> life, library |-> library, hand |-> hand, graveyard |-> graveyard,
   replacement_effects |-> replacement_effects]

\* serde_json::to_value(&RandomDiscardReplacement as &dyn DrawReplacement): typetag's
\* externally tagged form of a unit struct
RandomDiscardReplacementJson == JObj("RandomDiscardReplacement", JNull)

\* The mutated decoder takes every tagged entry for the handler.
DecodesToHandlerAny(j) == j.t = "obj"

\* serde_json::from_value::<Box<dyn DrawReplacement>>(s).ok(): the one registered variant
DecodesToHandler(j) == j.t = "obj" /\ j.k = "RandomDiscardReplacement" /\ j.v.t = "null"

\* RandomDiscardReplacement::check
RandomDiscardCheck(game) == game.hand # <<>>

\* The mutated replacement moves the first card of hand.
RandomDiscardApplyFirst(game) ==
  [game |-> [game EXCEPT !.hand = Tail(game.hand),
                         !.graveyard = Append(game.graveyard, Head(game.hand))],
   outcome |-> Ok(TResStr, "Discarded " \o Head(game.hand))]

\* The mutated replacement takes the card out of hand and puts it nowhere.
RandomDiscardApplyLoses(game) ==
  [game |-> [game EXCEPT !.hand = Front(game.hand)],
   outcome |-> Ok(TResStr, "Discarded " \o Last(game.hand))]

\* RandomDiscardReplacement::apply
RandomDiscardApply(game) ==
  [game |-> [game EXCEPT !.hand = Front(game.hand),
                         !.graveyard = Append(game.graveyard, Last(game.hand))],
   outcome |-> Ok(TResStr, "Discarded " \o Last(game.hand))]

\* the alts of handle_replacement: the entries under the key that decode and whose check holds
Alts(game, replacement_key) ==
  IF replacement_key \in DOMAIN game.replacement_effects
    THEN LET decodes(j) == DecodesToHandler(j)
             applies(j) == RandomDiscardCheck(game)
         IN  SelectSeq(SelectSeq(game.replacement_effects[replacement_key], decodes), applies)
    ELSE <<>>

\* The mutated dispatch applies the first applicable candidate whenever there is one.
handle_replacement_first(game, replacement_key) ==
  LET alts == Alts(game, replacement_key) IN
  IF Len(alts) >= 1
    THEN LET r == RandomDiscardApply(game)
         IN  [tag |-> "Some", game |-> r.game, value |-> r.outcome]
    ELSE [tag |-> "None", game |-> game, value |-> Unit]

\* handle_replacement: Some(value) of the only applicable candidate, todo!() when more
\* than one applies, None otherwise
handle_replacement(game, replacement_key) ==
  LET alts == Alts(game, replacement_key) IN
  IF Len(alts) = 1
    THEN LET r == RandomDiscardApply(game)
         IN  [tag |-> "Some", game |-> r.game, value |-> r.outcome]
    ELSE IF Len(alts) # 0
      THEN [tag |-> "todo", game |-> game, value |-> Unit]
      ELSE [tag |-> "None", game |-> game, value |-> Unit]

\* the message of lib.rs 84, without the skull that ends it
EmptyLibraryMessage == "Drew from empty library!"

\* The mutated draw takes the first card of library.
DefaultDrawFirst(game) ==
  IF game.library # <<>>
    THEN [game |-> [game EXCEPT !.library = Tail(game.library),
                                !.hand = Append(game.hand, Head(game.library))],
          outcome |-> Ok(TResStr, "Drew " \o Head(game.library))]
    ELSE [game |-> game, outcome |-> Err(TResStr, EmptyLibraryMessage)]

\* The mutated default draw puts the card drawn at the front of hand.
DefaultDrawHandFront(game) ==
  IF game.library # <<>>
    THEN [game |-> [game EXCEPT !.library = Front(game.library),
                                !.hand = <<Last(game.library)>> \o game.hand],
          outcome |-> Ok(TResStr, "Drew " \o Last(game.library))]
    ELSE [game |-> game, outcome |-> Err(TResStr, EmptyLibraryMessage)]

\* the default behaviour of draw_card (lib.rs 77-85)
DefaultDraw(game) ==
  IF game.library # <<>>
    THEN [game |-> [game EXCEPT !.library = Front(game.library),
                                !.hand = Append(game.hand, Last(game.library))],
          outcome |-> Ok(TResStr, "Drew " \o Last(game.library))]
    ELSE [game |-> game, outcome |-> Err(TResStr, EmptyLibraryMessage)]

\* draw_card: panic is the todo!() of handle_replacement
draw_card(game) ==
  LET hr == handle_replacement(game, "DRAW") IN
  CASE hr.tag = "Some" -> [panic |-> "", game |-> hr.game, outcome |-> hr.value]
    [] hr.tag = "todo" -> [panic |-> "Unresolved-Choice", game |-> game, outcome |-> Unit]
    [] hr.tag = "None" -> LET d == DefaultDraw(game)
                          IN  [panic |-> "", game |-> d.game, outcome |-> d.outcome]

\* gain_life(amount)
gain_life(amount, game) ==
  [panic |-> "", game |-> [game EXCEPT !.life = @ + amount],
   outcome |-> Str("Added " \o ToString(amount) \o " life")]

\* The mutated registration stores a new list under "DRAW".
replace_draw_with_discard_insert(game) ==
  LET reg == game.replacement_effects
  IN  [panic |-> "",
       game |-> [game EXCEPT !.replacement_effects =
                   [key \in DOMAIN reg \cup {"DRAW"} |->
                      IF key = "DRAW" THEN <<RandomDiscardReplacementJson>>
                                      ELSE reg[key]]],
       outcome |-> Unit]

\* replace_draw_with_discard: entry("DRAW").or_default(), then push
replace_draw_with_discard(game) ==
  LET reg == game.replacement_effects
      existing == IF "DRAW" \in DOMAIN reg THEN reg["DRAW"] ELSE <<>>
  IN  [panic |-> "",
       game |-> [game EXCEPT !.replacement_effects =
                   [key \in DOMAIN reg \cup {"DRAW"} |->
                      IF key = "DRAW" THEN Append(existing, RandomDiscardReplacementJson)
                                      ELSE reg[key]]],
       outcome |-> Unit]

(***************************************************************************)
(* The closures handed to apply.  A closure is a function name and its     *)
(* bound argument (0 where it has none).                                   *)
(***************************************************************************)
Closure(fn, arg) == [fn |-> fn, arg |-> arg]
DrawCard == Closure("draw_card", 0)
GainLife(amount) == Closure("gain_life", amount)
ReplaceDrawWithDiscard == Closure("replace_draw_with_discard", 0)
DrawCards(count) == Closure("draw_cards", count)
TurnOne == Closure("turn_one", 0)
TurnTwo == Closure("turn_two", 0)
TurnThree == Closure("turn_three", 0)
\* a closure apply admits and lib.rs does not have: it draws a card through apply and
\* returns a value serde_json cannot serialize
Unserializable == Closure("unserializable", 0)
\* the code that drives the top-level interpreter (lib.rs 262-292, 330)
Main == Closure("main", 0)

FnNames == {"draw_card", "gain_life", "replace_draw_with_discard", "draw_cards",
            "turn_one", "turn_two", "turn_three", "unserializable"}

\* the closures a run may apply at top level
TopClosures ==
  {DrawCard, ReplaceDrawWithDiscard, DrawCards(MaxCount), TurnOne, TurnTwo, TurnThree,
   Unserializable}

\* the closures the diverging call of a second run may be
DivergingClosures == TopClosures \cup {GainLife(5)}

\* the closures that make no apply call of their own
IsLeaf(f) == f.fn \in {"draw_card", "gain_life", "replace_draw_with_discard"}

\* the type T of apply::<T, F> for each closure
RetType(f) ==
  CASE f.fn = "draw_card" -> TResStr
    [] f.fn = "gain_life" -> TString
    [] f.fn = "replace_draw_with_discard" -> TUnit
    [] f.fn = "draw_cards" -> TResVec
    [] f.fn = "turn_one" -> TI32
    [] f.fn = "turn_two" -> TI32
    [] f.fn = "turn_three" -> TUnit
    [] f.fn = "unserializable" -> TMapUnit
    [] f.fn = "main" -> TUnit

\* the apply calls a closure's body makes, in order
Calls(f) ==
  CASE f.fn = "draw_cards" -> [i \in 1..f.arg |-> DrawCard]
    [] f.fn = "turn_one" -> <<DrawCard>>
    [] f.fn = "turn_two" -> <<DrawCards(1), ReplaceDrawWithDiscard>>
    [] f.fn = "turn_three" -> <<DrawCards(1), GainLife(5)>>
    [] f.fn = "unserializable" -> <<DrawCard>>
    [] OTHER -> <<>>

\* the calls whose result the closure unwraps (lib.rs 207, 219, 235); what the test
\* then compares the result with is its expectation of one scenario and no part of
\* the closure
Unwraps(f, pc) == f.fn \in {"turn_one", "turn_two", "turn_three"} /\ pc = 1

(***************************************************************************)
(* interpreter.rs: Interpreter and apply.                                  *)
(***************************************************************************)
\* An Interpreter value (game, effects, position) with the closure running on it: pc is
\* the index of the closure's next apply call, results the Vec of draw_cards, done and
\* outcome its return.  init_len, calls and fresh record how the value was built and used.
Interpreter(game, effects, f) ==
  [game |-> game, effects |-> effects, position |-> 0,
   f |-> f, pc |-> 1, results |-> <<>>, done |-> FALSE, outcome |-> Unit,
   init_len |-> Len(effects), calls |-> 0, fresh |-> 0]

\* what a closure returns when its body runs to its end
ReturnValue(fr) ==
  CASE fr.f.fn = "draw_cards" -> Ok(TResVec, fr.results)
    [] fr.f.fn = "turn_one" -> I32(42)
    [] fr.f.fn = "turn_two" -> I32(69)
    [] fr.f.fn = "unserializable" -> MapUnit
    [] OTHER -> Unit

\* a closure that has no apply call left returns
Settle(fr) ==
  IF ~IsLeaf(fr.f) /\ fr.f # Main /\ ~fr.done /\ fr.pc > Len(Calls(fr.f))
    THEN [fr EXCEPT !.done = TRUE, !.outcome = ReturnValue(fr)]
    ELSE fr

\* The mutated draw_cards has no ? on the draw: it pushes what a failed draw carries
\* and goes on.
DeliverNoEarlyReturn(fr, val) ==
  CASE fr.f.fn = "draw_cards" ->
         [panic |-> "",
          fr |-> Settle([fr EXCEPT !.results = Append(@, val.v), !.pc = @ + 1])]
    [] Unwraps(fr.f, fr.pc) /\ IsErr(val) -> [panic |-> "unwrap", fr |-> fr]
    [] OTHER -> [panic |-> "", fr |-> Settle([fr EXCEPT !.pc = @ + 1])]

\* the closure's code between the return of its pc-th apply call and its next one
Deliver(fr, val) ==
  CASE fr.f.fn = "draw_cards" ->
         IF IsErr(val)
           THEN [panic |-> "", fr |-> [fr EXCEPT !.done = TRUE,
                                                 !.outcome = Err(TResVec, val.v)]]
           ELSE [panic |-> "",
                 fr |-> Settle([fr EXCEPT !.results = Append(@, val.v), !.pc = @ + 1])]
    [] Unwraps(fr.f, fr.pc) /\ IsErr(val) -> [panic |-> "unwrap", fr |-> fr]
    [] OTHER -> [panic |-> "", fr |-> Settle([fr EXCEPT !.pc = @ + 1])]

\* the closures of run 2: those of run 1, with the one at seed.diverge replaced
Script2 ==
  IF seed.diverge = 0 THEN script ELSE [script EXCEPT ![seed.diverge] = seed.alt]

\* the closure the top frame may hand to apply next
NextCallees(fr) ==
  IF fr.done THEN {}
  ELSE IF fr.f = Main
    THEN IF run = 1
           THEN IF Len(script) < MaxCalls THEN TopClosures ELSE {}
           ELSE IF fr.pc <= Len(Script2) THEN {Script2[fr.pc]} ELSE {}
  ELSE IF fr.pc <= Len(Calls(fr.f)) THEN {Calls(fr.f)[fr.pc]} ELSE {}

Top == Last(stack)
Depth == Len(stack)
AtTopLevel == Depth = 1
SetTop(fr) == [stack EXCEPT ![Depth] = fr]

\* The mutated child is given a copy of the game.
SubIntGameCopy(ref) == [heap |-> Append(heap, heap[ref]), ref |-> Len(heap) + 1]

\* game: self.game (interpreter.rs 55): the child holds the parent's reference
SubIntGame(ref) == [heap |-> heap, ref |-> ref]

\* The mutated lookup finds no recorded node.
RecordedNever(fr) == FALSE

\* self.effects.get(self.position) is Some (interpreter.rs 35)
Recorded(fr) == fr.position < Len(fr.effects)

\* The mutated replay branch leaves the cursor where it was.
ReplayPositionStuck(position) == position

\* self.position += 1 (interpreter.rs 36)
ReplayPosition(position) == position + 1

\* The mutated fresh branch reserves no slot.
FreshPositionStuck(position) == position

\* self.position += 1 (interpreter.rs 40)
FreshPosition(position) == position + 1

\* the Ok(...) a call of apply ends with: by the replay branch (interpreter.rs 39) or
\* the fresh branch (interpreter.rs 67), for closure f
Returned(branch, f, val) == [branch |-> branch, f |-> f, val |-> val]
NoReturn == Returned("none", Main, Unit)

\* the record of run 1 after each of its top-level calls
Snapshot(effects, game) == [effects |-> effects, game |-> game]
SnapAfter(fr, game) ==
  IF run = 1 /\ fr.f = Main THEN Append(snap, Snapshot(fr.effects, game)) ELSE snap

\* apply, lines 35-39: a node is recorded at position
ApplyReplay(g) ==
  /\ status = "running"
  /\ g \in NextCallees(Top)
  /\ Recorded(Top)
  /\ LET dec == Top.effects[Top.position + 1]
         fr == [Top EXCEPT !.position = ReplayPosition(@), !.calls = @ + 1]
         result == EffectValueGet(RetType(g), dec.result)
         d == Deliver(fr, result.val)
     IN  IF ~result.ok
           THEN /\ status' = "DecodeError"
                /\ stack' = SetTop(fr)
                /\ snap' = snap
                /\ returned' = returned
           ELSE /\ status' = IF d.panic = "" THEN "running" ELSE d.panic
                /\ stack' = SetTop(d.fr)
                /\ snap' = SnapAfter(d.fr, heap[Top.game])
                /\ returned' = Returned("replay", g, result.val)
  /\ script' = IF run = 1 /\ Top.f = Main THEN Append(script, g) ELSE script
  /\ UNCHANGED <<heap, run, seed, DRAW_CARD_CALL_COUNT, GAIN_LIFE_CALL_COUNT, fresh_calls>>

\* apply, lines 40-58: no node at position; f is about to run on sub_int
ApplyFresh(g) ==
  /\ status = "running"
  /\ g \in NextCallees(Top)
  /\ ~Recorded(Top)
  /\ LET fr == [Top EXCEPT !.position = FreshPosition(@), !.calls = @ + 1, !.fresh = @ + 1]
         sub == SubIntGame(Top.game)
         sub_int == Settle(Interpreter(sub.ref, <<>>, g))
     IN  /\ stack' = Append(SetTop(fr), sub_int)
         /\ heap' = sub.heap
  /\ fresh_calls' = [fresh_calls EXCEPT ![g.fn] = @ + 1]
  /\ script' = IF run = 1 /\ Top.f = Main THEN Append(script, g) ELSE script
  /\ UNCHANGED <<status, run, snap, seed, DRAW_CARD_CALL_COUNT, GAIN_LIFE_CALL_COUNT,
                 returned>>

\* the body of the domain effect the top frame was created for
Effect(f, game) ==
  CASE f.fn = "draw_card" -> draw_card(game)
    [] f.fn = "gain_life" -> gain_life(f.arg, game)
    [] f.fn = "replace_draw_with_discard" -> replace_draw_with_discard(game)

\* f(&mut sub_int) for draw_card, gain_life(amount) and replace_draw_with_discard
RunEffect ==
  /\ status = "running"
  /\ IsLeaf(Top.f)
  /\ ~Top.done
  /\ LET r == Effect(Top.f, heap[Top.game]) IN
       /\ DRAW_CARD_CALL_COUNT' = DRAW_CARD_CALL_COUNT + (IF Top.f.fn = "draw_card" THEN 1 ELSE 0)
       /\ GAIN_LIFE_CALL_COUNT' = GAIN_LIFE_CALL_COUNT + (IF Top.f.fn = "gain_life" THEN 1 ELSE 0)
       /\ IF r.panic # ""
            THEN /\ status' = r.panic
                 /\ UNCHANGED <<heap, stack>>
            ELSE /\ status' = status
                 /\ heap' = [heap EXCEPT ![Top.game] = r.game]
                 /\ stack' = SetTop([Top EXCEPT !.done = TRUE, !.outcome = r.outcome])
  /\ UNCHANGED <<run, script, snap, seed, fresh_calls, returned>>

\* The mutated apply records the result and drops what the child recorded.
RecordedNodeNoChildren(outcome, children) == EffectTree(EffectValueNew(outcome).ev, <<>>)

\* the node apply pushes (interpreter.rs 62-65)
RecordedNode(outcome, children) == EffectTree(EffectValueNew(outcome).ev, children)

\* The mutated apply pushes a node before it has the encoded result.
EffectsAtEncodePanicPartial(effects, children) ==
  Append(effects, EffectTree([serialized |-> JNull], children))

\* self.effects when the .unwrap() of interpreter.rs 63 panics: the operand of push is
\* not built yet, so push (line 62) has not run
EffectsAtEncodePanic(effects, children) == effects

\* apply, lines 60-67: f has returned outcome; push the node and return outcome
ApplyReturn ==
  /\ status = "running"
  /\ Depth >= 2
  /\ Top.done
  /\ LET sub_int == Top
         self == stack[Depth - 1]
         fr == [self EXCEPT !.effects = Append(@, RecordedNode(sub_int.outcome, sub_int.effects))]
         d == Deliver(fr, sub_int.outcome)
     IN  IF ~EffectValueNew(sub_int.outcome).ok
           THEN /\ status' = "EncodeError"
                /\ stack' = [stack EXCEPT ![Depth - 1].effects =
                                           EffectsAtEncodePanic(@, sub_int.effects)]
                /\ UNCHANGED <<snap, returned>>
           ELSE /\ stack' = [Front(stack) EXCEPT ![Depth - 1] = d.fr]
                /\ status' = IF d.panic = "" THEN "running" ELSE d.panic
                /\ snap' = IF d.panic = "" THEN SnapAfter(d.fr, heap[self.game]) ELSE snap
                /\ returned' = Returned("fresh", sub_int.f, sub_int.outcome)
  /\ UNCHANGED <<heap, run, script, seed, DRAW_CARD_CALL_COUNT, GAIN_LIFE_CALL_COUNT,
                 fresh_calls>>

\* the driver makes no further call: run 1 may stop after any call, run 2 makes the
\* calls of its script
MainFinish ==
  /\ status = "running"
  /\ AtTopLevel
  /\ run = 2 => Top.pc > Len(Script2)
  /\ status' = "done"
  /\ UNCHANGED <<heap, stack, run, script, snap, seed, DRAW_CARD_CALL_COUNT,
                 GAIN_LIFE_CALL_COUNT, fresh_calls, returned>>

NoSeed == [k |-> 0, from_initial |-> FALSE, diverge |-> 0, alt |-> Main,
           draws |-> 0, gains |-> 0]

\* the game run 1 started from
S0 == snap[1].game

\* lib.rs 321-328: a new Interpreter over effects a run recorded, position 0.  The
\* effects are those of the first k calls; the game is the one those calls left (the
\* test reuses g) or a game in the initial state.  A run that diverges makes, at one
\* replayed position, a call of another result type.
Reseed(k, from_initial, diverge, alt) ==
  /\ status = "done"
  /\ run = 1
  /\ k \in 0..Len(script)
  /\ diverge = 0 => alt = Main
  /\ diverge # 0 => /\ diverge \in 1..k
                    /\ ~from_initial
                    /\ k = Len(script)
                    /\ alt \in DivergingClosures
                    /\ RetType(alt) # RetType(script[diverge])
  /\ run' = 2
  /\ status' = "running"
  /\ heap' = <<IF from_initial THEN S0 ELSE snap[k + 1].game>>
  /\ stack' = <<Interpreter(1, snap[k + 1].effects, Main)>>
  /\ seed' = [k |-> k, from_initial |-> from_initial, diverge |-> diverge, alt |-> alt,
              draws |-> DRAW_CARD_CALL_COUNT, gains |-> GAIN_LIFE_CALL_COUNT]
  /\ returned' = NoReturn
  /\ UNCHANGED <<script, snap, DRAW_CARD_CALL_COUNT, GAIN_LIFE_CALL_COUNT, fresh_calls>>

\* the cards of the test (lib.rs 189), bottom of the library first
Cards == <<"Mox Tombstone", "Mox Awesome", "Mox Opal", "Mox Jet">>

\* a registry entry no handler variant decodes from
UnknownReplacementJson == JObj("UnknownReplacement", JNull)

NoRegistry == [key \in {} |-> <<>>]
Registry(entries) == [key \in {"DRAW"} |-> entries]

\* the games a run starts from: the test's (life 20, a library of MaxLibrary cards,
\* empty hand and graveyard) with no replacement registered, and with a registry that
\* already holds the key
InitGames ==
  {Game(20, SubSeq(Cards, 1, MaxLibrary), <<>>, <<>>, reg) :
     reg \in {NoRegistry, Registry(<<>>), Registry(<<UnknownReplacementJson>>)}}

Init ==
  /\ \E g \in InitGames :
       /\ heap = <<g>>
       /\ snap = <<Snapshot(<<>>, g)>>
  /\ stack = <<Interpreter(1, <<>>, Main)>>
  /\ status = "running"
  /\ run = 1
  /\ script = <<>>
  /\ seed = NoSeed
  /\ DRAW_CARD_CALL_COUNT = 0
  /\ GAIN_LIFE_CALL_COUNT = 0
  /\ fresh_calls = [fn \in FnNames |-> 0]
  /\ returned = NoReturn

Next ==
  \/ \E g \in NextCallees(Top) : ApplyReplay(g)
  \/ \E g \in NextCallees(Top) : ApplyFresh(g)
  \/ RunEffect
  \/ ApplyReturn
  \/ MainFinish
  \/ \E k \in 0..MaxCalls, from_initial \in BOOLEAN, diverge \in 0..MaxCalls,
        alt \in DivergingClosures \cup {Main} : Reseed(k, from_initial, diverge, alt)

Spec == Init /\ [][Next]_vars

(***************************************************************************)
(* The properties.                                                         *)
(***************************************************************************)
Root == stack[1]
\* the record and the game run 1 ended with
E == snap[Len(script) + 1].effects
S == snap[Len(script) + 1].game
\* run 2 has made every call of the call tree of run 1
Run2Done == run = 2 /\ status = "done"
IdenticalCallTree == seed.diverge = 0
SeededWithE == seed.k = Len(script)

\* the game of the test, and the record its three turns leave (lib.rs 349-376)
TestGame == Game(20, <<"Mox Tombstone", "Mox Awesome">>, <<>>, <<>>, NoRegistry)
Leaf(j) == [result |-> [serialized |-> j], children |-> <<>>]
Node(j, children) == [result |-> [serialized |-> j], children |-> children]
TestEffects ==
  << Node(JNum(42), <<Leaf(JObj("Ok", JStr("Drew Mox Awesome")))>>),
     Node(JNum(69),
          << Node(JObj("Ok", JArr(<<JStr("Drew Mox Tombstone")>>)),
                  <<Leaf(JObj("Ok", JStr("Drew Mox Tombstone")))>>),
             Leaf(JNull) >>),
     Node(JNull,
          << Node(JObj("Ok", JArr(<<JStr("Discarded Mox Tombstone")>>)),
                  <<Leaf(JObj("Ok", JStr("Discarded Mox Tombstone")))>>),
             Leaf(JStr("Added 5 life")) >>) >>
TestFinalGame ==
  Game(25, <<>>, <<"Mox Awesome">>, <<"Mox Tombstone">>,
       Registry(<<RandomDiscardReplacementJson>>))
TestScript == <<TurnOne, TurnTwo, TurnThree>>

\* C1: when the call tree of a completed fresh run is run again on an interpreter built
\* with the effects E that run recorded and position 0, the run ends with effects equal
\* to E and with position equal to the number of top-level apply calls.
C1_ReplayReproducesRecord ==
  (Run2Done /\ IdenticalCallTree /\ SeededWithE)
    => /\ Root.effects = E
       /\ Root.position = Len(script)

\* the replay of the test: the three turns, replayed over their own record
C1_Witness ==
  /\ Run2Done /\ IdenticalCallTree /\ SeededWithE
  /\ script = TestScript
  /\ S0 = TestGame
  /\ E = TestEffects
  /\ Root.effects = TestEffects
  /\ Root.position = 3

\* C2 as claimed: replaying the call tree over E from the initial state S0 ends with
\* the shared state S the fresh run ended with.
C2_ReplayFromInitialReachesFinal ==
  (Run2Done /\ IdenticalCallTree /\ SeededWithE /\ seed.from_initial)
    => heap[Root.game] = S

\* C2, amended: replaying the call tree over E leaves the shared state as it was when
\* the replay started: S when the replay runs on the game the fresh run left, S0 when
\* it runs on a game in the initial state.
C2_ReplayLeavesState ==
  (Run2Done /\ IdenticalCallTree /\ SeededWithE)
    => heap[Root.game] = IF seed.from_initial THEN S0 ELSE S

\* the replay of the test ends on the game of lib.rs 339-348
C2_Witness ==
  /\ Run2Done /\ IdenticalCallTree /\ SeededWithE /\ ~seed.from_initial
  /\ script = TestScript
  /\ S0 = TestGame
  /\ S = TestFinalGame
  /\ heap[Root.game] = TestFinalGame

\* the effect function the top frame is about to run has not been counted yet
Pending(fn) == IF status = "running" /\ Top.f.fn = fn /\ ~Top.done THEN 1 ELSE 0

\* C3: each call counter equals the number of apply calls of its function that took
\* the fresh branch (the one whose function is about to start counted apart), and a
\* replay of the whole call tree over its complete record leaves both counters as
\* they were.
C3_ReplayRunsNoEffect ==
  /\ DRAW_CARD_CALL_COUNT + Pending("draw_card") = fresh_calls["draw_card"]
  /\ GAIN_LIFE_CALL_COUNT + Pending("gain_life") = fresh_calls["gain_life"]
  /\ (run = 2 /\ IdenticalCallTree /\ SeededWithE)
       => /\ DRAW_CARD_CALL_COUNT = seed.draws
          /\ GAIN_LIFE_CALL_COUNT = seed.gains

\* the counts of the test after its replay (lib.rs 331-332)
C3_Witness ==
  /\ Run2Done /\ IdenticalCallTree /\ SeededWithE
  /\ script = TestScript
  /\ S0 = TestGame
  /\ DRAW_CARD_CALL_COUNT = 3
  /\ GAIN_LIFE_CALL_COUNT = 1

\* C4 as claimed: the call tree, run on an interpreter seeded with the record E1 of
\* its first k calls, executes only the calls after the k-th and ends with the record
\* of the run from scratch, whatever shared state the seeded interpreter is built over.
C4_ExtensionEqualsScratch ==
  (Run2Done /\ IdenticalCallTree)
    => /\ Root.fresh = Len(script) - seed.k
       /\ Root.effects = E

\* C4, amended: the seeded run executes only the calls after the k-th; its record
\* equals the record of the run from scratch when the seeded interpreter is built
\* over the shared state the prefix run left.
C4_ExtensionOverKeptState ==
  (Run2Done /\ IdenticalCallTree)
    => /\ Root.fresh = Len(script) - seed.k
       /\ Root.init_len = seed.k
       /\ ~seed.from_initial => Root.effects = E

\* the test run incrementally: turn_one recorded, then all three turns over that
\* record and the game turn_one left
C4_Witness ==
  /\ Run2Done /\ IdenticalCallTree /\ ~seed.from_initial
  /\ seed.k = 1
  /\ script = TestScript
  /\ S0 = TestGame
  /\ Root.fresh = 2
  /\ Root.effects = TestEffects

\* the node replayed by the diverging call of run 2, and the types encoded and requested
DivergedNode == Root.effects[seed.diverge]
EncodedType == RetType(script[seed.diverge])
RequestedType == RetType(seed.alt)
\* the diverging call of run 2 has been made
DivergedCallMade == run = 2 /\ seed.diverge # 0 /\ Root.position >= seed.diverge

TopGame == heap[Top.game]
\* a step in which draw_card runs: the only step that counts a draw
DrawCardRuns ==
  /\ status = "running"
  /\ Top.f = DrawCard
  /\ ~Top.done
  /\ DRAW_CARD_CALL_COUNT' = DRAW_CARD_CALL_COUNT + 1
\* the number of candidates registered under "DRAW" that apply in a game: the entries
\* that are the discard replacement, when hand is not empty
Applicable(game) ==
  IF "DRAW" \in DOMAIN game.replacement_effects /\ game.hand # <<>>
    THEN Cardinality({i \in DOMAIN game.replacement_effects["DRAW"] :
                        game.replacement_effects["DRAW"][i] = RandomDiscardReplacementJson})
    ELSE 0

\* C6: a draw_card that runs with exactly one applicable candidate under "DRAW"
\* returns Ok("Discarded <card>") for the last card of hand, which moves to the end of
\* graveyard; library, life and the registry are unchanged: the default draw is not made.
C6_ReplacementSubstitutes ==
  [][(DrawCardRuns /\ Applicable(TopGame) = 1)
       => /\ status' = "running"
          /\ Top'.done
          /\ Top'.outcome = Ok(TResStr, "Discarded " \o Last(TopGame.hand))
          /\ TopGame' = [TopGame EXCEPT !.hand = Front(TopGame.hand),
                                        !.graveyard = Append(TopGame.graveyard,
                                                             Last(TopGame.hand))]
          /\ Depth' = Depth]_vars

\* the draw of turn_three: hand [Awesome, Tombstone] loses its last card
C6_Witness ==
  /\ run = 1
  /\ script = TestScript
  /\ Top.f = DrawCard
  /\ Top.done
  /\ Top.outcome = Ok(TResStr, "Discarded Mox Tombstone")
  /\ TopGame = Game(20, <<>>, <<"Mox Awesome">>, <<"Mox Tombstone">>,
                    Registry(<<RandomDiscardReplacementJson>>))

\* C7: when no candidate under "DRAW" applies, handle_replacement answers None and
\* leaves the game alone, and draw_card makes its default draw: with a card in library
\* the last one moves to the end of hand and the result is Ok("Drew <card>"),
\* with an empty library the game is unchanged and the result is the failure.
C7_NoReplacementDefaultDraw ==
  [][(DrawCardRuns /\ Applicable(TopGame) = 0)
       => /\ handle_replacement(TopGame, "DRAW") =
               [tag |-> "None", game |-> TopGame, value |-> Unit]
          /\ status' = "running"
          /\ Top'.done
          /\ Depth' = Depth
          /\ IF TopGame.library # <<>>
               THEN /\ Top'.outcome = Ok(TResStr, "Drew " \o Last(TopGame.library))
                    /\ TopGame' = [TopGame EXCEPT !.library = Front(TopGame.library),
                                                  !.hand = Append(TopGame.hand,
                                                                  Last(TopGame.library))]
               ELSE /\ Top'.outcome = Err(TResStr, EmptyLibraryMessage)
                    /\ TopGame' = TopGame]_vars

\* the discard replacement is registered and hand was empty: the draw is the default one
C7_Witness ==
  /\ Top.f = DrawCard
  /\ Top.done
  /\ Top.outcome = Ok(TResStr, "Drew Mox Awesome")
  /\ TopGame = Game(20, <<"Mox Tombstone">>, <<"Mox Awesome">>, <<>>,
                    Registry(<<RandomDiscardReplacementJson>>))

\* C8: a draw_card that runs with two or more applicable candidates ends the run in
\* the unresolved choice: no game is changed and no interpreter is, so nothing was
\* applied, nothing drawn and no node recorded; and nothing runs after it.
C8_UnresolvedChoice ==
  /\ [][(DrawCardRuns /\ Applicable(TopGame) >= 2)
          => /\ status' = "Unresolved-Choice"
             /\ heap' = heap
             /\ stack' = stack]_vars
  /\ [][status = "Unresolved-Choice" => UNCHANGED vars]_vars

\* the discard replacement registered twice, a card in hand, and a draw
C8_Witness ==
  /\ status = "Unresolved-Choice"
  /\ Top.f = DrawCard
  /\ TopGame.hand # <<>>
  /\ TopGame.replacement_effects =
       Registry(<<RandomDiscardReplacementJson, RandomDiscardReplacementJson>>)

Min(a, b) == IF a <= b THEN a ELSE b
\* the interpreters alive before and after a step of one run; the i-th is the same
\* value in both states
Surviving == IF run' = run THEN 1..Min(Depth, Depth') ELSE {}

\* C9: in every interpreter, position equals the number of apply calls made on it and
\* is at most the length of the effects it was built with plus the number of its fresh
\* calls; no step lowers a position; a step moves only the cursor of the interpreter
\* apply is called on, by one, so the calls nested in an apply leave the cursor of the
\* caller alone.
C9_CursorInvariant ==
  /\ [](\A i \in 1..Depth :
          /\ stack[i].position = stack[i].calls
          /\ stack[i].position <= stack[i].init_len + stack[i].fresh)
  /\ [][\A i \in Surviving :
          /\ stack'[i].position >= stack[i].position
          /\ stack'[i].position - stack[i].position = stack'[i].calls - stack[i].calls
          /\ stack'[i].calls - stack[i].calls \in {0, 1}
          /\ i < Depth => stack'[i].position = stack[i].position]_vars

\* run 2 over a record of one node: the second top-level call is fresh and its
\* draw_cards has made both of its own calls
C9_Witness ==
  /\ run = 2
  /\ Root.init_len = 1
  /\ Root.position = 2
  /\ Root.fresh = 1
  /\ Depth = 2
  /\ Top.f = DrawCards(2)
  /\ Top.position = 2

\* C10: every interpreter alive holds the reference of the top-level one, there is one
\* Game, each interpreter sees the game the innermost one sees, and when apply
\* returns the caller sees the game the child left.
C10_SharedState ==
  /\ [](/\ Len(heap) = 1
        /\ \A i \in 1..Depth : /\ stack[i].game = Root.game
                               /\ heap[stack[i].game] = TopGame)
  /\ [][(run' = run /\ Depth' = Depth - 1) => heap'[stack'[Depth'].game] = TopGame]_vars

\* the draw nested in draw_cards nested in turn_two has changed the game the
\* top-level interpreter sees
C10_Witness ==
  /\ run = 1
  /\ Depth = 4
  /\ Top.f = DrawCard
  /\ Top.done
  /\ stack[2].f = TurnTwo
  /\ heap[Root.game].hand = <<"Mox Awesome">>
  /\ S0.hand = <<>>

\* the failure draw_card returns on an empty library, and the node that records it
EmptyDrawFailure == Err(TResStr, EmptyLibraryMessage)
FailureNode == Leaf(JObj("Err", JStr(EmptyLibraryMessage)))
\* the apply call run 2 makes next is draw_card, and the node at position records the
\* failure
ReplaysFailedDraw ==
  /\ run = 2
  /\ status = "running"
  /\ AtTopLevel
  /\ Top.pc <= Len(Script2)
  /\ Script2[Top.pc] = DrawCard
  /\ Top.position < Len(Top.effects)
  /\ Top.effects[Top.position + 1] = FailureNode

\* C11: a draw_card that runs with an empty library and no applicable replacement
\* returns the failure Err and changes no game; when apply returns from a draw_card that
\* failed, the failure is what it hands to its caller and one childless node holding
\* the encoded failure is appended to the caller's effects; an apply of draw_card at a
\* position that records the failure returns that same failure, and draw_card is not run.
C11_FailureIsMemoized ==
  /\ [][(DrawCardRuns /\ Applicable(TopGame) = 0 /\ TopGame.library = <<>>)
          => /\ status' = "running"
             /\ Top'.done
             /\ Top'.outcome = EmptyDrawFailure
             /\ heap' = heap]_vars
  /\ [][(/\ status = "running" /\ Depth >= 2 /\ Top.done
         /\ Top.f = DrawCard /\ Top.outcome = EmptyDrawFailure
         /\ Depth' = Depth - 1)
          => /\ stack'[Depth - 1].effects = Append(stack[Depth - 1].effects, FailureNode)
             /\ returned' = Returned("fresh", DrawCard, EmptyDrawFailure)
             /\ heap' = heap]_vars
  /\ [][(ReplaysFailedDraw /\ stack' # stack)
          => /\ status' = "running"
             /\ returned' = Returned("replay", DrawCard, EmptyDrawFailure)
             /\ DRAW_CARD_CALL_COUNT' = DRAW_CARD_CALL_COUNT
             /\ fresh_calls' = fresh_calls
             /\ Depth' = Depth
             /\ heap' = heap]_vars

\* run 1 drew three times from a library of two cards; run 2 has replayed the third draw
C11_Witness ==
  /\ Run2Done /\ IdenticalCallTree /\ SeededWithE
  /\ script = <<DrawCard, DrawCard, DrawCard>>
  /\ E[3] = FailureNode
  /\ S.library = <<>>
  /\ returned = Returned("replay", DrawCard, EmptyDrawFailure)
  /\ DRAW_CARD_CALL_COUNT = 3

\* f has returned to apply a value EffectValue::new cannot encode
EncodeFails == status = "running" /\ Depth >= 2 /\ Top.done /\ ~Serializes(Top.outcome)

\* C12: when the value f returned to a fresh apply cannot be encoded, the apply ends the
\* run in the encode failure and returns nothing; the effects of the interpreter it
\* was called on stay as they were before the call, the nodes the child recorded are
\* appended nowhere, the game keeps what f did to it, and nothing runs afterwards.
C12_EncodeFailureRecordsNothing ==
  /\ [][EncodeFails
          => /\ status' = "EncodeError"
             /\ stack'[Depth - 1].effects = stack[Depth - 1].effects
             /\ heap' = heap
             /\ returned' = returned]_vars
  /\ [](status = "EncodeError"
          => /\ Root.effects = Last(snap).effects
             /\ Top.effects # <<>>
             /\ heap[Root.game] = draw_card(Last(snap).game).game)
  /\ [][status = "EncodeError" => UNCHANGED vars]_vars

\* the first call of a run drew Mox Awesome and returned the unserializable value: the
\* card is in hand, the draw's node is in the child, the top-level record is empty
C12_Witness ==
  /\ status = "EncodeError"
  /\ script = <<Unserializable>>
  /\ Root.effects = <<>>
  /\ Top.effects = <<Leaf(JObj("Ok", JStr("Drew Mox Awesome")))>>
  /\ heap[Root.game].hand = <<"Mox Awesome">>
  /\ S0.hand = <<>>

\* xs is ys with entries appended
IsPrefix(xs, ys) == Len(xs) <= Len(ys) /\ SubSeq(ys, 1, Len(xs)) = xs
\* the list the registry holds under a key; none when the key is absent
EntriesOf(game, key) ==
  IF key \in DOMAIN game.replacement_effects THEN game.replacement_effects[key] ELSE <<>>
\* replace_draw_with_discard runs: its frame is on top and has not returned
RegistrationRuns == status = "running" /\ Top.f = ReplaceDrawWithDiscard /\ ~Top.done
\* the apply call made next is answered from the record
ReplayStep ==
  /\ status = "running"
  /\ Top.position < Len(Top.effects)
  /\ Top'.calls = Top.calls + 1

\* C13: within a run no step takes a key out of the registry, and the list under each
\* key is after the step the list before it with entries appended at the end; a
\* replace_draw_with_discard that runs appends exactly one entry, the serialized
\* RandomDiscardReplacement, under "DRAW" and touches nothing else of the game; an
\* apply answered from the record leaves the registry as it is.
C13_RegistryAppendOnly ==
  /\ [][run' = run
          => \A r \in 1..Len(heap) : \A key \in DOMAIN heap[r].replacement_effects :
               /\ key \in DOMAIN heap'[r].replacement_effects
               /\ IsPrefix(heap[r].replacement_effects[key],
                           heap'[r].replacement_effects[key])]_vars
  /\ [][RegistrationRuns
          => /\ DOMAIN TopGame'.replacement_effects = {"DRAW"}
             /\ TopGame'.replacement_effects["DRAW"] =
                  Append(EntriesOf(TopGame, "DRAW"), RandomDiscardReplacementJson)
             /\ [TopGame' EXCEPT !.replacement_effects = TopGame.replacement_effects]
                  = TopGame]_vars
  /\ [][ReplayStep => heap' = heap]_vars

\* a registry that held an undecodable entry, after two registrations and the replay
\* of both over the game they left
C13_Witness ==
  /\ Run2Done /\ IdenticalCallTree /\ SeededWithE /\ ~seed.from_initial
  /\ script = <<ReplaceDrawWithDiscard, ReplaceDrawWithDiscard>>
  /\ fresh_calls["replace_draw_with_discard"] = 2
  /\ TopGame.replacement_effects =
       Registry(<<UnknownReplacementJson, RandomDiscardReplacementJson,
                  RandomDiscardReplacementJson>>)

\* C14: an apply answered from the record moves the position of the interpreter it is
\* called on by one and changes nothing else: every game, the effects of that
\* interpreter and every interpreter around it are as before, no child interpreter
\* comes to exist, and no effect function was run.
C14_ReplayFrame ==
  [][ReplayStep
       => /\ Top'.position = Top.position + 1
          /\ Top'.effects = Top.effects
          /\ Top'.game = Top.game
          /\ heap' = heap
          /\ Depth' = Depth
          /\ \A i \in 1..(Depth - 1) : stack'[i] = stack[i]
          /\ DRAW_CARD_CALL_COUNT' = DRAW_CARD_CALL_COUNT
          /\ GAIN_LIFE_CALL_COUNT' = GAIN_LIFE_CALL_COUNT
          /\ fresh_calls' = fresh_calls]_vars

\* the replay of the test has answered turn_two from the record: position 2, the record
\* and the game as run 1 left them
C14_Witness ==
  /\ run = 2 /\ status = "running"
  /\ script = TestScript
  /\ SeededWithE /\ ~seed.from_initial
  /\ returned = Returned("replay", TurnTwo, I32(69))
  /\ Root.position = 2
  /\ Root.effects = TestEffects
  /\ TopGame = TestFinalGame
  /\ Depth = 1

\* the closure of the k-th apply call made on an interpreter that started empty
CalleeOf(fr, k) == IF fr.f = Main THEN script[k] ELSE Calls(fr.f)[k]
\* the apply calls made on the i-th interpreter that have returned
Completed(i) == stack[i].calls - (IF i < Depth THEN 1 ELSE 0)

\* C15: a fresh apply starts f on a child that has empty effects, position 0 and the
\* caller's game; when f has returned, apply appends to the caller's effects exactly one
\* node, whose result is the encoding of the value f returned and whose children are
\* the nodes the child recorded, in their order, and returns that value.  So on an
\* interpreter that started empty the nodes are as many as the apply calls that have
\* returned, and the k-th node holds a result of the type of the k-th call and no more
\* children than that call's closure makes calls.
C15_RecordMirrorsCallTree ==
  /\ [][(status = "running" /\ run' = run /\ Depth' = Depth + 1)
          => /\ Top'.effects = <<>>
             /\ Top'.position = 0
             /\ Top'.game = Top.game
             /\ stack'[Depth].effects = Top.effects]_vars
  /\ [][(status = "running" /\ run' = run /\ Depth' = Depth - 1)
          => /\ stack'[Depth - 1].effects =
                  Append(stack[Depth - 1].effects,
                         [result |-> [serialized |-> ToValue(Top.outcome)],
                          children |-> Top.effects])
             /\ returned' = Returned("fresh", Top.f, Top.outcome)]_vars
  /\ [](\A i \in 1..Depth : stack[i].init_len = 0 =>
          /\ Len(stack[i].effects) = Completed(i)
          /\ \A k \in 1..Len(stack[i].effects) :
               /\ EffectValueGet(RetType(CalleeOf(stack[i], k)),
                                 stack[i].effects[k].result).ok
               /\ Len(stack[i].effects[k].children) <= Len(Calls(CalleeOf(stack[i], k))))

\* the three turns of the test, run fresh: the record is the snapshot of lib.rs 349-376
C15_Witness ==
  /\ run = 1 /\ status = "done"
  /\ script = TestScript
  /\ S0 = TestGame
  /\ Root.effects = TestEffects
  /\ returned = Returned("fresh", TurnThree, Unit)

\* the first n top-level calls of run 1 were draw_card, and have returned
FirstDraws(n) ==
  /\ Len(snap) >= n + 1
  /\ \A k \in 1..n : script[k] = DrawCard

\* C16: a draw_card that runs with no applicable replacement and a card in library
\* takes the last element off library, puts it at the end of hand and returns
\* Ok("Drew <card>"); life, graveyard and the registry are as before.  From a
\* library [.., A, B] and an empty hand the first draw leaves library [.., A] and hand
\* [B], the second leaves library [..] and hand [B, A].
C16_DefaultDraw ==
  /\ [][(DrawCardRuns /\ Applicable(TopGame) = 0 /\ TopGame.library # <<>>)
          => /\ TopGame'.library = Front(TopGame.library)
             /\ TopGame'.hand = Append(TopGame.hand, Last(TopGame.library))
             /\ Top'.done
             /\ Top'.outcome = Ok(TResStr, "Drew " \o Last(TopGame.library))
             /\ TopGame'.life = TopGame.life
             /\ TopGame'.graveyard = TopGame.graveyard
             /\ TopGame'.replacement_effects = TopGame.replacement_effects]_vars
  /\ [](FirstDraws(1)
          => /\ snap[2].game.library = Front(S0.library)
             /\ snap[2].game.hand = <<Last(S0.library)>>
             /\ snap[2].effects = <<Leaf(JObj("Ok", JStr("Drew " \o Last(S0.library))))>>)
  /\ [](FirstDraws(2)
          => /\ snap[3].game.library = Front(Front(S0.library))
             /\ snap[3].game.hand = <<Last(S0.library), Last(Front(S0.library))>>)

\* two draws from the library of the test
C16_Witness ==
  /\ run = 1 /\ status = "done"
  /\ S0 = TestGame
  /\ script = <<DrawCard, DrawCard>>
  /\ returned = Returned("fresh", DrawCard, Ok(TResStr, "Drew Mox Tombstone"))
  /\ TopGame = Game(20, <<>>, <<"Mox Awesome", "Mox Tombstone">>, <<>>, NoRegistry)

\* the node apply pushes for a draw_card that returned Ok(message)
DrawNode(message) == Leaf(JObj("Ok", JStr(message)))
IsDrawCards(fr) == fr.f.fn = "draw_cards"

\* C17: draw_cards(count) calls apply(draw_card) and nothing else, at most count times,
\* and holds the messages of the draws that succeeded in call order, one per node.  When
\* it has returned Ok, the list has exactly count messages and the interpreter count
\* nodes, the k-th node recording the k-th message; when it has returned Err, the
\* failure is the one of its last draw, that draw is the i-th for some i in 1..count,
\* the interpreter has made i calls and holds i nodes, the ones before the last being
\* successes.  After it has returned no call is made on its interpreter.
C17_DrawCards ==
  /\ [](\A i \in 1..Depth : IsDrawCards(stack[i]) =>
          LET fr == stack[i]
              count == fr.f.arg
              n == Len(fr.effects)
          IN  /\ fr.calls <= count
              /\ \A k \in 1..n : /\ fr.effects[k].children = <<>>
                                  /\ EffectValueGet(TResStr, fr.effects[k].result).ok
              /\ Len(fr.results) <= n
              /\ \A k \in 1..Len(fr.results) : fr.effects[k] = DrawNode(fr.results[k])
              /\ (fr.done /\ fr.outcome.ok)
                   => /\ fr.outcome = Ok(TResVec, fr.results)
                      /\ Len(fr.outcome.v) = count
                      /\ n = count
                      /\ fr.calls = count
              /\ (fr.done /\ ~fr.outcome.ok)
                   => /\ n \in 1..count
                      /\ fr.calls = n
                      /\ Len(fr.results) = n - 1
                      /\ fr.effects[n] = Leaf(JObj("Err", JStr(fr.outcome.v)))
                      /\ fr.outcome = Err(TResVec, EmptyLibraryMessage))
  /\ [][\A i \in Surviving :
          (IsDrawCards(stack[i]) /\ stack[i].done) => stack'[i] = stack[i]]_vars

\* a draw_cards(2) that drew the two cards of the library, then a draw_cards(2) whose
\* first draw failed
C17_Witness ==
  /\ run = 1
  /\ S0 = TestGame
  /\ script = <<DrawCards(2), DrawCards(2)>>
  /\ Root.effects =
       <<Node(JObj("Ok", JArr(<<JStr("Drew Mox Awesome"), JStr("Drew Mox Tombstone")>>)),
              <<DrawNode("Drew Mox Awesome"), DrawNode("Drew Mox Tombstone")>>)>>
  /\ Depth = 2
  /\ Top.f = DrawCards(2)
  /\ Top.done
  /\ Top.outcome = Err(TResVec, EmptyLibraryMessage)
  /\ Top.effects = <<FailureNode>>
  /\ Top.position = 1

\* the entries under "DRAW" that no handler decodes from, and the game without them
Undecodable(game) ==
  {i \in DOMAIN EntriesOf(game, "DRAW") : EntriesOf(game, "DRAW")[i] = UnknownReplacementJson}
WithoutUndecodable(game) ==
  LET known(j) == j # UnknownReplacementJson IN
  [game EXCEPT !.replacement_effects =
     [key \in DOMAIN game.replacement_effects |->
        SelectSeq(game.replacement_effects[key], known)]]
\* a game with the registry of another
WithRegistryOf(game, other) ==
  [game EXCEPT !.replacement_effects = other.replacement_effects]

\* C18: the entries under "DRAW" that decode to no handler have no part in the
\* dispatch: draw_card does to a game what it does to the same game without those
\* entries, and leaves them where they are.  A draw with a card in hand and a registry
\* of undecodable entries and exactly one discard replacement is the substitution; a
\* draw with a registry of undecodable entries only is the default draw.
C18_UndecodableIgnored ==
  /\ [][DrawCardRuns
          => LET with == draw_card(TopGame)
                 without == draw_card(WithoutUndecodable(TopGame))
             IN  /\ with.panic = without.panic
                 /\ with.outcome = without.outcome
                 /\ with.game = WithRegistryOf(without.game, TopGame)]_vars
  /\ [][(DrawCardRuns /\ Undecodable(TopGame) # {} /\ Applicable(TopGame) = 1)
          => /\ Top'.done
             /\ Top'.outcome = Ok(TResStr, "Discarded " \o Last(TopGame.hand))
             /\ TopGame' = [TopGame EXCEPT !.hand = Front(TopGame.hand),
                                           !.graveyard = Append(TopGame.graveyard,
                                                                Last(TopGame.hand))]]_vars
  /\ [][(/\ DrawCardRuns /\ Undecodable(TopGame) # {}
         /\ Undecodable(TopGame) = DOMAIN EntriesOf(TopGame, "DRAW"))
          => /\ Top'.done
             /\ TopGame'.graveyard = TopGame.graveyard
             /\ TopGame'.replacement_effects = TopGame.replacement_effects
             /\ IF TopGame.library # <<>>
                  THEN /\ Top'.outcome = Ok(TResStr, "Drew " \o Last(TopGame.library))
                       /\ TopGame'.library = Front(TopGame.library)
                       /\ TopGame'.hand = Append(TopGame.hand, Last(TopGame.library))
                  ELSE /\ Top'.outcome = EmptyDrawFailure
                       /\ TopGame' = TopGame]_vars

\* the registry held an undecodable entry; a card was drawn, the discard replacement
\* registered, and the next draw discarded the card
C18_Witness ==
  /\ run = 1
  /\ script = <<DrawCard, ReplaceDrawWithDiscard, DrawCard>>
  /\ snap[2].game.hand = <<"Mox Awesome">>
  /\ snap[2].game.replacement_effects = Registry(<<UnknownReplacementJson>>)
  /\ Top.f = DrawCard
  /\ Top.done
  /\ Top.outcome = Ok(TResStr, "Discarded Mox Awesome")
  /\ TopGame = Game(20, <<"Mox Tombstone">>, <<>>, <<"Mox Awesome">>,
                    Registry(<<UnknownReplacementJson, RandomDiscardReplacementJson>>))

\* C19: every interpreter is built with position 0.  On an interpreter with no call in
\* progress position is at most the number of its effects; while a call on it is in
\* progress, that call is fresh and position is one more than the number of its
\* effects.  Of the n calls made on it, those that replayed are min(n, the number of
\* effects it was built with); a call made after a fresh one is fresh; and the node a
\* fresh call appends is the last of effects and sits at index position - 1 (counted
\* from 0), the nodes before it being as they were.
C19_ReplayThenFresh ==
  /\ [](\A i \in 1..Depth :
          /\ i = Depth => stack[i].position <= Len(stack[i].effects)
          /\ i < Depth => stack[i].position = Len(stack[i].effects) + 1
          /\ stack[i].calls - stack[i].fresh = Min(stack[i].calls, stack[i].init_len))
  /\ [][\A i \in Surviving :
          (stack[i].fresh >= 1 /\ stack'[i].calls = stack[i].calls + 1)
            => stack'[i].fresh = stack[i].fresh + 1]_vars
  /\ [][(run' = run /\ Depth' = Depth + 1) => Top'.position = 0 /\ Top'.calls = 0]_vars
  /\ [][(status = "running" /\ run' = run /\ Depth' = Depth - 1)
          => LET self == stack[Depth - 1] IN
             /\ Len(stack'[Depth - 1].effects) = self.position
             /\ stack'[Depth - 1].position = self.position
             /\ SubSeq(stack'[Depth - 1].effects, 1, self.position - 1) = self.effects
             /\ stack'[Depth - 1].effects[self.position].children = Top.effects]_vars

\* run 2 over the record of the first of three calls: one call replayed, two ran fresh
C19_Witness ==
  /\ Run2Done /\ IdenticalCallTree
  /\ Len(script) = 3
  /\ seed.k = 1
  /\ Root.init_len = 1
  /\ Root.calls = 3
  /\ Root.fresh = 2
  /\ Root.position = 3
  /\ Len(Root.effects) = 3

\* the cards there are, and the copies of a card in a zone and in a game
CardSet == {Cards[i] : i \in DOMAIN Cards}
Count(card, zone) == Cardinality({i \in DOMAIN zone : zone[i] = card})
Copies(card, game) ==
  Count(card, game.library) + Count(card, game.hand) + Count(card, game.graveyard)
Size(game) == Len(game.library) + Len(game.hand) + Len(game.graveyard)
\* what a step does to the copies of a card in library, hand and graveyard
Moved(card, before, after) ==
  << Count(card, after.library) - Count(card, before.library),
     Count(card, after.hand) - Count(card, before.hand),
     Count(card, after.graveyard) - Count(card, before.graveyard) >>

\* C20: in every state the cards of library, hand and graveyard together are, copy for
\* copy, the cards of the game the first run started with.  A step of a run leaves each
\* card where it is or moves one copy of it from library to hand or from hand to
\* graveyard, and does not lower life.
C20_CardConservation ==
  /\ [](\A r \in 1..Len(heap) :
          /\ Size(heap[r]) = Size(S0)
          /\ \A card \in CardSet : Copies(card, heap[r]) = Copies(card, S0))
  /\ [][run' = run
          => \A r \in 1..Len(heap) :
               /\ heap'[r].life >= heap[r].life
               /\ \A card \in CardSet :
                    Moved(card, heap[r], heap'[r]) \in
                      {<<0, 0, 0>>, <<-1, 1, 0>>, <<0, -1, 1>>}]_vars

\* the game the three turns of the test leave: a card in hand, a card in graveyard,
\* the library empty, life 25
C20_Witness ==
  /\ run = 1 /\ status = "done"
  /\ S0 = TestGame
  /\ script = TestScript
  /\ TopGame.life = 25
  /\ TopGame.library = <<>>
  /\ TopGame.hand = <<"Mox Awesome">>
  /\ TopGame.graveyard = <<"Mox Tombstone">>

====
